---- MODULE Spec2Model ----
(***************************************************************************)
(* Intersection generator of the guidance extractor:                       *)
(*   src/src/extractor/guidance/intersection_generator.cpp                 *)
(*   src/include/extractor/guidance/mergable-roads.hpp                     *)
(*                                                                         *)
(* The node based graph, the restriction map, the barrier nodes and the    *)
(* geometry are immutable inputs of the generator; they are drawn in Init  *)
(* and never change.  One behaviour is one call of                         *)
(* IntersectionGenerator::operator(): GetConnectedRoads, then              *)
(* MergeSegregatedRoads, then the loop of AdjustForJoiningRoads.           *)
(*                                                                         *)
(* Angles and bearings are doubles in the source.  They are fixed-point    *)
(* numbers here: one degree is Deg units, and every bearing of the input   *)
(* is a multiple of BearingStep degrees, so that the halvings of the       *)
(* source (correction factors, midpoints, offsets) are exact.              *)
(***************************************************************************)
EXTENDS Integers, Sequences, FiniteSets, TLC

VARIABLES
    edges,              \* node_based_graph: edge id -> edge data, source, target, geometry
    barrier_nodes,      \* barrier_nodes
    only_restrictions,  \* restriction_map: only-turn restrictions <<from, via, to>>
    no_restrictions,    \* restriction_map: forbidden turns <<from, via, to>>
    parallel,           \* geometry: pairs of edges whose sampled coordinates are parallel
    pc,                 \* position in operator()
    from_node,          \* argument of operator()
    via_eid,            \* argument of operator()
    connected,          \* operator(): what GetConnectedRoads returned
    merged,             \* operator(): what MergeSegregatedRoads returned
    intersection,       \* the Intersection being built
    index,              \* loop index of AdjustForJoiningRoads
    walk                \* GetActualNextIntersection: its arguments and locals

graphVars == <<edges, barrier_nodes, only_restrictions, no_restrictions, parallel>>
vars == <<edges, barrier_nodes, only_restrictions, no_restrictions, parallel,
          pc, from_node, via_eid, connected, merged, intersection, index, walk>>

----------------------------------------------------------------------------
(* Numbers *)

\* fixed-point scale of the doubles: units per degree
Deg == 16
\* the inputs' bearings are multiples of this many degrees
BearingStep == 4

D(x) == x * Deg
FullCircle == D(360)

Abs(x) == IF x < 0 THEN -x ELSE x
Min(a, b) == IF a < b THEN a ELSE b
Max(a, b) == IF a > b THEN a ELSE b
Half(x) == x \div 2

\* std::numeric_limits<double>::epsilon(): below one unit of the fixed-point scale
Epsilon == 1

SPECIAL_EDGEID == 0 - 1
SPECIAL_NODEID == 0 - 1
EMPTY_NAMEID == 0
\* extractor/guidance/constants.hpp
MAXIMAL_ALLOWED_NO_TURN_DEVIATION == D(3)

\* util::guidance::angularDeviation: the cyclic distance of two angles
angularDeviation(angle, from) ==
    LET deviation == Abs(angle - from)
    IN  Min(FullCircle - deviation, deviation)

\* util::guidance::angleBetween: the midpoint of the shorter arc
angleBetween(lhs, rhs) ==
    LET difference == Abs(lhs - rhs)
        angle_between_candidate == Half(lhs + rhs)
    IN  IF difference <= D(180) THEN angle_between_candidate
        ELSE IF angle_between_candidate >= D(180)
             THEN angle_between_candidate - D(180)
             ELSE angle_between_candidate + D(180)

----------------------------------------------------------------------------
(* The node based graph *)

EdgeIDs == 1..Len(edges)
Nodes == {edges[e].source : e \in EdgeIDs} \cup {edges[e].target : e \in EdgeIDs}

GetTarget(e) == edges[e].target
GetEdgeData(e) == edges[e]

\* the edges leaving node, as a set
AdjacentEdges(node) == {e \in EdgeIDs : edges[e].source = node}

RECURSIVE SetToSortedSeq(_)
SetToSortedSeq(S) ==
    IF S = {} THEN <<>>
    ELSE LET m == CHOOSE x \in S : \A y \in S : x <= y
         IN  <<m>> \o SetToSortedSeq(S \ {m})

\* NodeBasedDynamicGraph::GetAdjacentEdgeRange: the edges leaving node, in edge id order
GetAdjacentEdgeRange(node) == SetToSortedSeq(AdjacentEdges(node))

\* NodeBasedDynamicGraph::GetOutDegree
GetOutDegree(node) == Cardinality(AdjacentEdges(node))

\* NodeBasedDynamicGraph::FindEdge: the first edge from -> to of the range
FindEdge(from, to) ==
    LET found == {e \in AdjacentEdges(from) : GetTarget(e) = to}
    IN  IF found = {} THEN SPECIAL_EDGEID
        ELSE CHOOSE e \in found : \A f \in found : e <= f

\* RestrictionMap::CheckForEmanatingIsOnlyTurn
CheckForEmanatingIsOnlyTurn(from, via) ==
    LET found == {r \in only_restrictions : r[1] = from /\ r[2] = via}
    IN  IF found = {} THEN SPECIAL_NODEID ELSE (CHOOSE r \in found : TRUE)[3]

\* RestrictionMap::CheckIfTurnIsRestricted
CheckIfTurnIsRestricted(from, via, to) == <<from, via, to>> \in no_restrictions

\* util::coordinate_calculation::bearing(turn_coordinate, first_coordinate): the
\* bearing at the target of via_edge looking back along via_edge
InBearing(via_edge) == edges[via_edge].in_bearing

\* util::coordinate_calculation::bearing(turn_coordinate, third_coordinate)
OutBearing(onto_edge) == edges[onto_edge].bearing

\* util::coordinate_calculation::computeAngle(first, turn, third): 0 is a u-turn,
\* 90 a right turn, 180 straight, 270 a left turn
computeAngle(via_edge, onto_edge) ==
    (InBearing(via_edge) - OutBearing(onto_edge)) % FullCircle

\* util::coordinate_calculation::haversineDistance between the coordinates of
\* the two end nodes of an edge, in metres
haversineDistance(e) == edges[e].distance

----------------------------------------------------------------------------
(* Sorting: std::sort with ConnectedRoad::compareByAngle.  std::sort is not   *)
(* stable: roads of equal angle end in any order.                             *)

IsSortedByAngle(roads) ==
    \A i \in 1..(Len(roads) - 1) : roads[i].angle <= roads[i + 1].angle

\* faulty variant of SortByAngle: the roads are left in the order of the scan
SortByAngle_Unsorted(roads) == {roads}

SortByAngle(roads) ==
    {[i \in 1..Len(roads) |-> roads[p[i]]] : p \in
        {q \in Permutations(1..Len(roads)) :
            \A i \in 1..(Len(roads) - 1) : roads[q[i]].angle <= roads[q[i + 1]].angle}}

----------------------------------------------------------------------------
(* GetConnectedRoads, intersection_generator.cpp lines 66-220.                *)
(* A ConnectedRoad is [eid, angle, bearing, entry_allowed].  Sequences are    *)
(* indexed from 1: element 0 of the source is element 1 here.                 *)

\* faulty variant of OnlyRestrictionToNode: the restriction is taken as reported
OnlyRestrictionToNode_Unchecked(from, turn_node) ==
    CheckForEmanatingIsOnlyTurn(from, turn_node)

\* lines 71-85: the only-restriction that applies, SPECIAL_NODEID when the
\* restriction names a node that no edge of turn_node leads to
OnlyRestrictionToNode(from, turn_node) ==
    LET only_restriction_to_node == CheckForEmanatingIsOnlyTurn(from, turn_node)
    IN  IF /\ only_restriction_to_node # SPECIAL_NODEID
           /\ \E onto_edge \in AdjacentEdges(turn_node) :
                  only_restriction_to_node = GetTarget(onto_edge)
        THEN only_restriction_to_node
        ELSE SPECIAL_NODEID

\* line 86
IsBarrierNode(turn_node) == turn_node \in barrier_nodes

\* faulty variant of TurnIsValid: a barrier does not stop a turn
TurnIsValid_NoBarrier(from, turn_node, only_restriction_to_node, onto_edge) ==
    LET to_node == GetTarget(onto_edge)
    IN  /\ ~GetEdgeData(onto_edge).reversed
        /\ (only_restriction_to_node = SPECIAL_NODEID \/ to_node = only_restriction_to_node)
        /\ ~CheckIfTurnIsRestricted(from, turn_node, to_node)

\* lines 100-110: turn_is_valid as first computed
TurnIsValid(from, turn_node, only_restriction_to_node, onto_edge) ==
    LET to_node == GetTarget(onto_edge)
    IN  /\ ~GetEdgeData(onto_edge).reversed
        /\ (~IsBarrierNode(turn_node) \/ from = to_node)
        /\ (only_restriction_to_node = SPECIAL_NODEID \/ to_node = only_restriction_to_node)
        /\ ~CheckIfTurnIsRestricted(from, turn_node, to_node)

\* lines 130-140: number_of_emmiting_bidirectional_edges
NumberOfEmittingBidirectionalEdges(turn_node) ==
    Cardinality({edge \in AdjacentEdges(turn_node) :
        ~GetEdgeData(FindEdge(GetTarget(edge), turn_node)).reversed})

\* faulty variant of UTurnIsValid: no dead-end rule
UTurnIsValid_NoDeadEndRule(from, turn_node, only_restriction_to_node, onto_edge) ==
    TurnIsValid(from, turn_node, only_restriction_to_node, onto_edge)

\* lines 121-147: turn_is_valid of a u-turn edge after the dead-end rule
UTurnIsValid(from, turn_node, only_restriction_to_node, onto_edge) ==
    LET turn_is_valid == TurnIsValid(from, turn_node, only_restriction_to_node, onto_edge)
    IN  IF turn_is_valid /\ ~IsBarrierNode(turn_node) /\ GetOutDegree(turn_node) > 1
        THEN NumberOfEmittingBidirectionalEdges(turn_node) <= 1
        ELSE turn_is_valid

\* lines 94-170: one iteration of the loop over the adjacent edges of turn_node;
\* scan is [intersection, has_uturn_edge, uturn_could_be_valid]
ScanEdge(from, via, only_restriction_to_node, scan, onto_edge) ==
    LET turn_node == GetTarget(via)
        to_node == GetTarget(onto_edge)
        angle == computeAngle(via, onto_edge)
    IN  IF from = to_node
        THEN [intersection |-> Append(scan.intersection,
                  [eid |-> onto_edge, angle |-> 0, bearing |-> InBearing(via),
                   entry_allowed |->
                       UTurnIsValid(from, turn_node, only_restriction_to_node, onto_edge)]),
              has_uturn_edge |-> TRUE,
              uturn_could_be_valid |->
                  TurnIsValid(from, turn_node, only_restriction_to_node, onto_edge)]
        ELSE [intersection |-> Append(scan.intersection,
                  [eid |-> onto_edge, angle |-> angle, bearing |-> OutBearing(onto_edge),
                   entry_allowed |->
                       TurnIsValid(from, turn_node, only_restriction_to_node, onto_edge)]),
              has_uturn_edge |-> (scan.has_uturn_edge \/ Abs(angle) < Epsilon),
              uturn_could_be_valid |-> scan.uturn_could_be_valid]

\* faulty variant of ScanEdges: reversed edges are left out of the intersection
RECURSIVE ScanEdges_DropReversed(_, _, _, _, _)
ScanEdges_DropReversed(from, via, only_restriction_to_node, scan, range) ==
    IF range = <<>> THEN scan
    ELSE IF GetEdgeData(Head(range)).reversed
    THEN ScanEdges_DropReversed(from, via, only_restriction_to_node, scan, Tail(range))
    ELSE ScanEdges_DropReversed(from, via, only_restriction_to_node,
             ScanEdge(from, via, only_restriction_to_node, scan, Head(range)), Tail(range))

RECURSIVE ScanEdges(_, _, _, _, _)
ScanEdges(from, via, only_restriction_to_node, scan, range) ==
    IF range = <<>> THEN scan
    ELSE ScanEdges(from, via, only_restriction_to_node,
             ScanEdge(from, via, only_restriction_to_node, scan, Head(range)), Tail(range))

\* faulty variant of WithArtificialUTurn: the artificial u-turn is always added
WithArtificialUTurn_Always(via, scan) ==
    Append(scan.intersection,
        [eid |-> via, angle |-> 0, bearing |-> InBearing(via), entry_allowed |-> FALSE])

\* lines 172-192: the artificial invalid u-turn of a street leading into nothing
WithArtificialUTurn(via, scan) ==
    IF ~scan.has_uturn_edge
    THEN Append(scan.intersection,
             [eid |-> via, angle |-> 0, bearing |-> InBearing(via), entry_allowed |-> FALSE])
    ELSE scan.intersection

\* lines 208-214: the first road that ends the search for the u-turn (index from 1)
RECURSIVE SelfUTurn(_, _, _)
SelfUTurn(from, roads, self_u_turn) ==
    IF /\ self_u_turn <= Len(roads)
       /\ roads[self_u_turn].angle < Epsilon
       /\ from # GetTarget(roads[self_u_turn].eid)
    THEN SelfUTurn(from, roads, self_u_turn + 1)
    ELSE self_u_turn

\* lines 201-218: a u-turn that could be valid is allowed when nothing else is
EnableUTurn(from, roads, uturn_could_be_valid) ==
    LET valid_count == Cardinality({i \in 1..Len(roads) : roads[i].entry_allowed})
        self_u_turn == SelfUTurn(from, roads, 1)
    IN  IF valid_count = 0 /\ uturn_could_be_valid /\ self_u_turn <= Len(roads)
        THEN [roads EXCEPT ![self_u_turn].entry_allowed = TRUE]
        ELSE roads

\* lines 86-219: the intersections GetConnectedRoads can return once the
\* only-restriction is known, one for each order std::sort can leave roads of
\* equal angle in
ConnectedRoadsGiven(only_restriction_to_node, from, via) ==
    LET scan == ScanEdges(from, via, only_restriction_to_node,
                    [intersection |-> <<>>, has_uturn_edge |-> FALSE,
                     uturn_could_be_valid |-> FALSE],
                    GetAdjacentEdgeRange(GetTarget(via)))
    IN  {EnableUTurn(from, sorted, scan.uturn_could_be_valid) :
            sorted \in SortByAngle(WithArtificialUTurn(via, scan))}

\* lines 66-220
GetConnectedRoads(from, via) ==
    ConnectedRoadsGiven(OnlyRestrictionToNode(from, GetTarget(via)), from, via)

----------------------------------------------------------------------------
(* The merge predicate: mergable-roads.hpp and CanMerge, lines 224-255 *)

\* util::guidance::requiresNameAnnounced on name ids of unrelated names
requiresNameAnnounced(from_name_id, to_name_id) == from_name_id # to_name_id

\* mergable-roads.hpp lines 34-49
haveCompatibleRoadData(lhs_edge_data, rhs_edge_data) ==
    IF lhs_edge_data.reversed = rhs_edge_data.reversed THEN FALSE
    ELSE IF lhs_edge_data.travel_mode # rhs_edge_data.travel_mode THEN FALSE
    ELSE lhs_edge_data.road_classification = rhs_edge_data.road_classification

\* mergable-roads.hpp lines 59-110: the two roads end at nodes that a road connects
isNarrowTriangle(intersection_node, lhs, rhs) ==
    FindEdge(GetTarget(lhs.eid), GetTarget(rhs.eid)) # SPECIAL_EDGEID

\* mergable-roads.hpp lines 112-169: the two roads lead to the same node
connectAgain(intersection_node, lhs, rhs) ==
    /\ GetTarget(lhs.eid) = GetTarget(rhs.eid)
    /\ GetTarget(lhs.eid) # intersection_node

\* mergable-roads.hpp lines 172-218: the sampled coordinates of the two roads
\* are long enough and parallel
haveSameDirection(intersection_node, lhs, rhs) ==
    IF angularDeviation(lhs.angle, rhs.angle) > D(90) THEN FALSE
    ELSE {lhs.eid, rhs.eid} \in parallel

\* faulty variant of canMergeRoad: roundabouts are not excluded
canMergeRoad_IgnoreRoundabout(intersection_node, lhs, rhs) ==
    LET lhs_edge_data == GetEdgeData(lhs.eid)
        rhs_edge_data == GetEdgeData(rhs.eid)
    IN  IF lhs.entry_allowed /\ rhs.entry_allowed THEN FALSE
        ELSE IF ~haveCompatibleRoadData(lhs_edge_data, rhs_edge_data) THEN FALSE
        ELSE IF angularDeviation(lhs.angle, rhs.angle) > D(60) THEN FALSE
        ELSE IF haveSameDirection(intersection_node, lhs, rhs) THEN TRUE
        ELSE FALSE

\* faulty variant of canMergeRoad: the narrow-triangle test is switched on
canMergeRoad_NarrowTriangle(intersection_node, lhs, rhs) ==
    LET lhs_edge_data == GetEdgeData(lhs.eid)
        rhs_edge_data == GetEdgeData(rhs.eid)
    IN  IF lhs_edge_data.roundabout \/ rhs_edge_data.roundabout THEN FALSE
        ELSE IF lhs.entry_allowed /\ rhs.entry_allowed THEN FALSE
        ELSE IF ~haveCompatibleRoadData(lhs_edge_data, rhs_edge_data) THEN FALSE
        ELSE IF angularDeviation(lhs.angle, rhs.angle) > D(60) THEN FALSE
        ELSE IF isNarrowTriangle(intersection_node, lhs, rhs) THEN TRUE
        ELSE IF haveSameDirection(intersection_node, lhs, rhs) THEN TRUE
        ELSE FALSE

\* mergable-roads.hpp lines 231-278
canMergeRoad(intersection_node, lhs, rhs) ==
    LET lhs_edge_data == GetEdgeData(lhs.eid)
        rhs_edge_data == GetEdgeData(rhs.eid)
    IN  IF lhs_edge_data.roundabout \/ rhs_edge_data.roundabout THEN FALSE
        ELSE IF lhs.entry_allowed /\ rhs.entry_allowed THEN FALSE
        ELSE IF ~haveCompatibleRoadData(lhs_edge_data, rhs_edge_data) THEN FALSE
        ELSE IF angularDeviation(lhs.angle, rhs.angle) > D(60) THEN FALSE
        ELSE IF FALSE /\ isNarrowTriangle(intersection_node, lhs, rhs) THEN TRUE
        ELSE IF haveSameDirection(intersection_node, lhs, rhs) THEN TRUE
        ELSE FALSE

\* intersection_generator.cpp lines 224-255 (indices from 1)
CanMerge(node_at_intersection, roads, first_index, second_index) ==
    LET first_data == GetEdgeData(roads[first_index].eid)
        second_data == GetEdgeData(roads[second_index].eid)
    IN  IF Len(roads) <= 2 THEN FALSE
        ELSE IF first_data.name_id = EMPTY_NAMEID \/ second_data.name_id = EMPTY_NAMEID
        THEN FALSE
        ELSE IF requiresNameAnnounced(first_data.name_id, second_data.name_id) THEN FALSE
        ELSE IF ~canMergeRoad(node_at_intersection, roads[first_index], roads[second_index])
        THEN FALSE
        ELSE TRUE

----------------------------------------------------------------------------
(* MergeSegregatedRoads, intersection_generator.cpp lines 382-522 *)

\* lines 393-395 (indices from 1)
getRight(roads, i) == ((i - 1 + Len(roads) - 1) % Len(roads)) + 1

\* faulty variant of merge: the result is always made from the first road
merge_KeepFirst(first, second) ==
    [first EXCEPT !.angle = angleBetween(first.angle, second.angle),
                  !.bearing = angleBetween(first.bearing, second.bearing)]

\* lines 397-405
merge(first, second) ==
    LET result == IF first.entry_allowed THEN first ELSE second
    IN  [result EXCEPT !.angle = angleBetween(first.angle, second.angle),
                       !.bearing = angleBetween(first.bearing, second.bearing)]

\* lines 407-414
is_connected_to_roundabout(roads) ==
    \E i \in 1..Len(roads) : GetEdgeData(roads[i].eid).roundabout

\* faulty variant of MergeUTurnLeft: the angle of the merged u-turn is not reset
MergeUTurnLeft_KeepAngle(roads) ==
    LET n == Len(roads)
        correction_factor == Half(FullCircle - roads[n].angle)
        shifted == [i \in 1..n |->
                       IF 1 < i /\ i < n
                       THEN [roads[i] EXCEPT !.angle = @ + correction_factor]
                       ELSE roads[i]]
    IN  <<merge(shifted[1], shifted[n])>> \o SubSeq(shifted, 2, n - 1)

\* faulty variant of MergeUTurnLeft: the correction is not halved
MergeUTurnLeft_FullCorrection(roads) ==
    LET n == Len(roads)
        correction_factor == FullCircle - roads[n].angle
        shifted == [i \in 1..n |->
                       IF 1 < i /\ i < n
                       THEN [roads[i] EXCEPT !.angle = @ + correction_factor]
                       ELSE roads[i]]
    IN  <<[merge(shifted[1], shifted[n]) EXCEPT !.angle = 0]>> \o SubSeq(shifted, 2, n - 1)

\* lines 449-463: the u-turn merged with the last road
MergeUTurnLeft(roads) ==
    LET n == Len(roads)
        correction_factor == Half(FullCircle - roads[n].angle)
        shifted == [i \in 1..n |->
                       IF 1 < i /\ i < n
                       THEN [roads[i] EXCEPT !.angle = @ + correction_factor]
                       ELSE roads[i]]
    IN  <<[merge(shifted[1], shifted[n]) EXCEPT !.angle = 0]>> \o SubSeq(shifted, 2, n - 1)

\* lines 464-475: the u-turn merged with the first road to its right
MergeUTurnRight(roads) ==
    LET n == Len(roads)
        correction_factor == Half(roads[2].angle)
        shifted == [i \in 1..n |->
                       IF i >= 3
                       THEN [roads[i] EXCEPT !.angle = @ - correction_factor]
                       ELSE roads[i]]
    IN  <<[merge(shifted[1], shifted[2]) EXCEPT !.angle = 0]>> \o SubSeq(shifted, 3, n)

\* lines 447-475: the u-turn step
UTurnStep(intersection_node, roads) ==
    IF CanMerge(intersection_node, roads, 1, Len(roads))
    THEN MergeUTurnLeft(roads)
    ELSE IF CanMerge(intersection_node, roads, 1, 2)
    THEN MergeUTurnRight(roads)
    ELSE roads

\* lines 447-490: the merges that include the u-turn
MergeUTurn(intersection_node, roads) ==
    LET to_roundabout == is_connected_to_roundabout(roads)
        merged_first == \/ CanMerge(intersection_node, roads, 1, Len(roads))
                        \/ CanMerge(intersection_node, roads, 1, 2)
        after == UTurnStep(intersection_node, roads)
    IN  IF merged_first /\ to_roundabout
        THEN [after EXCEPT ![1].entry_allowed = FALSE]
        ELSE after

\* lines 493-504: the sweep over the other roads, from source index 2
RECURSIVE MergeSweep(_, _, _)
MergeSweep(intersection_node, roads, i) ==
    IF i > Len(roads) THEN roads
    ELSE LET previous_index == getRight(roads, i)
         IN  IF /\ roads[previous_index].eid # SPECIAL_EDGEID
                /\ CanMerge(intersection_node, roads, i, previous_index)
             THEN MergeSweep(intersection_node,
                      [roads EXCEPT ![previous_index] = merge(roads[previous_index], roads[i]),
                                    ![i].eid = SPECIAL_EDGEID],
                      i + 1)
             ELSE MergeSweep(intersection_node, roads, i + 1)

\* lines 506-511
RemoveInvalid(roads) == SelectSeq(roads, LAMBDA road : road.eid # SPECIAL_EDGEID)

\* lines 382-522: the intersections MergeSegregatedRoads can return
MergeSegregatedRoads(intersection_node, roads) ==
    IF Len(roads) <= 1 THEN {roads}
    ELSE SortByAngle(RemoveInvalid(
             MergeSweep(intersection_node, MergeUTurn(intersection_node, roads), 3)))

----------------------------------------------------------------------------
(* AdjustForJoiningRoads, intersection_generator.cpp lines 544-635 *)

\* lines 571-578
adjustAngle(angle, offset) ==
    IF angle + offset > FullCircle THEN angle + offset - FullCircle
    ELSE IF angle + offset < 0 THEN angle + offset + FullCircle
    ELSE angle + offset

\* lines 585-587
get_offset(lhs, rhs) == Half(angularDeviation(lhs.angle, rhs.angle))

\* faulty variant of get_corrected_offset: the offset is not limited
get_corrected_offset_Unlimited(offset, road, next_road_in_offset_direction) == offset

\* lines 592-600
get_corrected_offset(offset, road, next_road_in_offset_direction) ==
    LET offset_limit == angularDeviation(road.angle, next_road_in_offset_direction.angle)
    IN  IF offset + MAXIMAL_ALLOWED_NO_TURN_DEVIATION > offset_limit
        THEN Half(offset_limit)
        ELSE offset

\* lines 605-616: the next intersection merges to the right
ShiftLeft(roads, i, next_intersection_along_road) ==
    LET offset == get_offset(next_intersection_along_road[1], next_intersection_along_road[2])
        corrected_offset ==
            get_corrected_offset(offset, roads[i], roads[(i % Len(roads)) + 1])
    IN  [roads EXCEPT ![i].angle = adjustAngle(@, corrected_offset),
                      ![i].bearing = adjustAngle(@, corrected_offset)]

\* lines 617-632: the next intersection merges to the left
ShiftRight(roads, i, next_intersection_along_road) ==
    LET offset == get_offset(next_intersection_along_road[1],
                             next_intersection_along_road[Len(next_intersection_along_road)])
        corrected_offset == get_corrected_offset(offset, roads[i], roads[i - 1])
    IN  [roads EXCEPT ![i].angle = adjustAngle(@, 0 - corrected_offset),
                      ![i].bearing = adjustAngle(@, 0 - corrected_offset)]

\* lines 555-632: the body of the loop for the road at index i (from 1), given the
\* result of GetConnectedRoads(node_at_intersection, road.eid)
AdjustRoad(roads, i, next_intersection_along_road) ==
    LET road == roads[i]
        node_at_next_intersection == GetTarget(road.eid)
    IN  IF Len(next_intersection_along_road) <= 1 THEN roads
        ELSE IF haversineDistance(road.eid) > 30 THEN roads
        ELSE IF GetOutDegree(node_at_next_intersection) <= 1 THEN roads
        ELSE IF CanMerge(node_at_next_intersection, next_intersection_along_road, 1, 2)
        THEN ShiftLeft(roads, i, next_intersection_along_road)
        ELSE IF CanMerge(node_at_next_intersection, next_intersection_along_road,
                         1, Len(next_intersection_along_road))
        THEN ShiftRight(roads, i, next_intersection_along_road)
        ELSE roads

----------------------------------------------------------------------------
(* The inputs.  A road between nodes a and b gives the graph the edge a -> b   *)
(* and, unless dir is "norev", the edge b -> a.  dir "fwd" is a one-way from   *)
(* a to b (the edge b -> a is reversed), "bwd" a one-way from b to a, "both"   *)
(* a two-way road and "norev" a street that leads into node b from nowhere:    *)
(* node a has no other road and the graph holds no edge back to it.            *)

Road(a, b, dir, name, rb, mode, cls, ba, bb, dist) ==
    [a |-> a, b |-> b, dir |-> dir, name |-> name, rb |-> rb, mode |-> mode,
     cls |-> cls, ba |-> ba, bb |-> bb, dist |-> dist]

EdgeOf(r, source, target, reversed, bearing, in_bearing) ==
    [source |-> source, target |-> target, reversed |-> reversed,
     name_id |-> r.name, roundabout |-> r.rb, travel_mode |-> r.mode,
     road_classification |-> r.cls, bearing |-> bearing, in_bearing |-> in_bearing,
     distance |-> r.dist]

RoadEdges(r) ==
    IF r.dir = "norev"
    THEN <<EdgeOf(r, r.a, r.b, FALSE, r.ba, r.bb)>>
    ELSE <<EdgeOf(r, r.a, r.b, r.dir = "bwd", r.ba, r.bb),
           EdgeOf(r, r.b, r.a, r.dir = "fwd", r.bb, r.ba)>>

RECURSIVE MkEdges(_)
MkEdges(roads) ==
    IF roads = <<>> THEN <<>> ELSE RoadEdges(Head(roads)) \o MkEdges(Tail(roads))

\* a bearing of k steps of BearingStep degrees
B(k) == D(BearingStep * (k % (360 \div BearingStep)))

Dirs == {"both", "fwd", "bwd"}

AllPairs(es) == {{e, f} : e \in 1..Len(es), f \in 1..Len(es)} \ {{e} : e \in 1..Len(es)}

\* Turn legality: node 1 is entered from node 0; the directions of the roads,
\* the barrier and the restrictions vary.  Node 1 has two more roads, or a
\* second road to node 0, or two roads to node 2.
LegalStar(ka) == <<<<0, 1, 44, 0>>, <<1, 2, ka, 10>>, <<1, 3, 22, 40>>>>
LegalParallelIn == <<<<0, 1, 44, 0>>, <<0, 1, 44, 0>>, <<1, 2, 68, 10>>>>
LegalParallelOut == <<<<0, 1, 44, 0>>, <<1, 2, 68, 10>>, <<1, 2, 68, 10>>>>

LegalRoads(top, dir) ==
    [k \in 1..Len(top) |->
        Road(top[k][1], top[k][2], dir[k], 1, FALSE, 1, 1, B(top[k][3]), B(top[k][4]), 40)]

LegalGraphs ==
    {MkEdges(LegalRoads(top, dir)) :
        top \in {LegalStar(68), LegalStar(0), LegalParallelIn, LegalParallelOut},
        dir \in [1..3 -> Dirs]}
    \cup
    {MkEdges(LegalRoads(top, dir)) :
        top \in {LegalStar(68), LegalStar(0)},
        dir \in {d \in [1..3 -> Dirs \cup {"norev"}] :
                    d[1] = "norev" /\ d[2] # "norev" /\ d[3] # "norev"}}

\* an only-restriction from node 0 over node 1 names one of the nodes 0..MaxNode
MaxNode == 4

InitLegal ==
    /\ edges \in LegalGraphs
    /\ barrier_nodes \in {{}, {1}}
    /\ only_restrictions \in {{}} \cup {{<<0, 1, to>>} : to \in (0..MaxNode) \ {1}}
    /\ no_restrictions \in {{}, {<<0, 1, 0>>}, {<<0, 1, 2>>}, {<<0, 1, 0>>, <<0, 1, 2>>}}
    /\ parallel = AllPairs(edges)

\* The merge predicate: node 1, entered from node 0, has roads to the nodes 2, 3
\* and 4 at 40, 72 and 320 degrees, and a road joins the nodes 2 and 3.  The
\* directions, the names, the travel mode, the classification and the
\* roundabout flag vary, and the road to node 2 is parallel to the others or not.
MergeDataRoads(dir, name, attr, rb) ==
    <<Road(0, 1, dir[1], 1, FALSE, 1, 1, B(44), B(0), 40),
      Road(1, 2, dir[2], name, FALSE, IF attr = 1 THEN 2 ELSE 1, IF attr = 2 THEN 2 ELSE 1,
           B(0 - 10), B(10), 40),
      Road(1, 3, dir[3], 1, rb, 1, 1, B(0 - 18), B(40), 40),
      Road(1, 4, dir[4], 1, FALSE, 1, 1, B(0 - 80), B(60), 40),
      Road(2, 3, "both", 1, FALSE, 1, 1, B(30), B(50), 40)>>

MergeDataGraphs ==
    {MkEdges(MergeDataRoads(dir, name, attr, rb)) :
        dir \in {d \in [1..4 -> Dirs] : d[1] # "bwd"},
        name \in {EMPTY_NAMEID, 1, 2}, attr \in {0, 1, 2}, rb \in BOOLEAN}

\* every pair of edges but the pairs of the edge from node 1 to node 2
PairsWithout(es) ==
    {p \in AllPairs(es) : \A e \in p : ~(es[e].source = 1 /\ es[e].target = 2)}

InitMergeData ==
    /\ edges \in MergeDataGraphs
    /\ barrier_nodes = {}
    /\ only_restrictions = {}
    /\ no_restrictions = {}
    /\ parallel \in {AllPairs(edges), PairsWithout(edges)}

\* The merges: node 1, entered from node 0, has three more roads of the same
\* name; their angles and all the directions vary, and the road from node 0
\* may be a street from nowhere.
MergeAngles == {0, 2, 10, 15, 44, 78, 80}

MergeAngleRoads(dir, angle) ==
    <<Road(0, 1, dir[1], 1, FALSE, 1, 1, B(44), B(0), 40),
      Road(1, 2, dir[2], 1, FALSE, 1, 1, B(0 - angle[1]), B(10), 40),
      Road(1, 3, dir[3], 1, FALSE, 1, 1, B(0 - angle[2]), B(40), 40),
      Road(1, 4, dir[4], 1, FALSE, 1, 1, B(0 - angle[3]), B(60), 40)>>

MergeAngleGraphs ==
    {MkEdges(MergeAngleRoads(dir, angle)) :
        dir \in {d \in [1..4 -> Dirs \cup {"norev"}] :
                    d[1] # "bwd" /\ \A k \in 2..4 : d[k] # "norev"},
        angle \in {a \in [1..3 -> MergeAngles] : a[1] <= a[2] /\ a[2] <= a[3]}}

InitMergeAngles ==
    /\ edges \in MergeAngleGraphs
    /\ barrier_nodes = {}
    /\ only_restrictions = {}
    /\ no_restrictions = {}
    /\ parallel = AllPairs(edges)

\* Joining roads: node 1, entered from node 0, has roads to the nodes 2 and 3;
\* node 2 is 20 m away and has roads to the nodes 5 and 6.  The angles at
\* node 1 and at node 2, the bearing of the way in and the directions vary.
JoiningRoads(b0, angle, dir) ==
    <<Road(0, 1, "both", 1, FALSE, 1, 1, B(44), B(b0), 40),
      Road(1, 2, dir[1], 1, FALSE, 1, 1, B(b0 - angle[1]), B(20), 20),
      Road(1, 3, "both", 1, FALSE, 1, 1, B(b0 - angle[2]), B(40), 40),
      Road(2, 5, dir[2], 1, FALSE, 1, 1, B(20 - angle[3]), B(60), 40),
      Road(2, 6, dir[3], 1, FALSE, 1, 1, B(20 - angle[4]), B(70), 40)>>

JoiningGraphs ==
    {MkEdges(JoiningRoads(b0, angle, dir)) :
        b0 \in {0, 6},
        angle \in {4, 10, 44, 86} \X {12, 80} \X {8, 12, 44} \X {46, 78, 82},
        dir \in [1..3 -> Dirs]}

\* Two joining roads side by side: the roads to the nodes 2 and 3 both lead to a
\* node close by whose u-turn merges with the road to its right (side "r") or
\* to its left (side "l"); the two roads are 16 * wide degrees off the u-turn.
FarRoads(node, to, side, wide) ==
    <<Road(node, to, IF side = "r" THEN "bwd" ELSE "both", 1, FALSE, 1, 1,
           B(20 - 4 * wide), B(60), 40),
      Road(node, to + 1, IF side = "l" THEN "bwd" ELSE "both", 1, FALSE, 1, 1,
           B(20 + 4 * wide), B(70), 40)>>

TwoJoiningRoads(angle, side, wide) ==
    <<Road(0, 1, "both", 1, FALSE, 1, 1, B(44), B(0), 40),
      Road(1, 2, "both", 1, FALSE, 1, 1, B(0 - angle[1]), B(20), 20),
      Road(1, 3, "both", 1, FALSE, 1, 1, B(0 - angle[2]), B(20), 20)>>
    \o FarRoads(2, 5, side[1], wide[1]) \o FarRoads(3, 7, side[2], wide[2])

JoiningAngles == {4, 10, 12, 16, 44, 46, 80, 86}

TwoJoiningGraphs ==
    {MkEdges(TwoJoiningRoads(angle, side, wide)) :
        angle \in {a \in JoiningAngles \X JoiningAngles : a[1] <= a[2]},
        side \in {"l", "r"} \X {"l", "r"},
        wide \in {2, 3} \X {2, 3}}

InitJoining ==
    /\ edges \in JoiningGraphs \cup TwoJoiningGraphs
    /\ barrier_nodes = {}
    /\ only_restrictions = {}
    /\ no_restrictions = {}
    /\ parallel = AllPairs(edges)

\* Roads of equal angle at a roundabout: node 1, entered from node 0, has a
\* second road to node 0, a road to node 2 that doubles back along the way in
\* (angle 0) and a roundabout road to node 3; the directions vary.
TieRoads(dir) ==
    <<Road(0, 1, dir[1], 1, FALSE, 1, 1, B(44), B(0), 40),
      Road(0, 1, dir[2], 1, FALSE, 1, 1, B(44), B(0), 40),
      Road(1, 2, dir[3], 1, FALSE, 1, 1, B(0), B(10), 40),
      Road(1, 3, dir[4], 1, TRUE, 1, 1, B(44), B(40), 40)>>

TieGraphs ==
    {MkEdges(TieRoads(dir)) : dir \in {d \in [1..4 -> Dirs] : d[1] # "bwd"}}

InitTies ==
    /\ edges \in TieGraphs
    /\ barrier_nodes = {}
    /\ only_restrictions = {}
    /\ no_restrictions = {}
    /\ parallel = AllPairs(edges)

\* Close neighbours: node 1, entered from node 0, has the road to node 2 at 40
\* degrees, 20 m long, and the road to node 3 a few degrees to its left (side
\* "r") or to its right (side "l"); at node 2 the u-turn merges with a road a
\* few degrees off, to its right (side "r") or to its left (side "l").
NeighbourGaps == {3, 8}
DownstreamGaps == {2, 4}

CloseRoads(side, gap, far) ==
    <<Road(0, 1, "both", 1, FALSE, 1, 1, B(44), D(0), 40),
      Road(1, 2, "both", 1, FALSE, 1, 1, D(320), D(80), 20),
      Road(1, 3, "both", 1, FALSE, 1, 1,
           IF side = "r" THEN D(320 - gap) ELSE D(320 + gap), B(40), 40),
      Road(2, 5, "bwd", 1, FALSE, 1, 1,
           IF side = "r" THEN D(80 - far) ELSE D(80 + far), B(60), 40),
      Road(2, 6, "both", 1, FALSE, 1, 1, D(260), B(70), 40)>>

CloseGraphs ==
    {MkEdges(CloseRoads(side, gap, far)) :
        side \in {"l", "r"}, gap \in NeighbourGaps, far \in DownstreamGaps}

InitClose ==
    /\ edges \in CloseGraphs
    /\ barrier_nodes = {}
    /\ only_restrictions = {}
    /\ no_restrictions = {}
    /\ parallel = AllPairs(edges)

\* Walks: the nodes 0, 1, 2, 3 form a chain of roads; the road that leaves
\* node 3 closes the chain at node 0, 1 or 2 or ends at node 4, and node 2 or
\* node 3 may have one more road.  The names and the directions vary, and the
\* road from node 1 to node 2 may double back along the road from node 0.
WalkCloses == {0, 1, 2, 4}
WalkSpurs == {0, 2, 3}

WalkRoads(dir, name, close, spur, back) ==
    <<Road(0, 1, dir[1], 1, FALSE, 1, 1, B(22), B(67), 40),
      Road(1, 2, dir[2], name[1], FALSE, 1, 1, IF back THEN B(67) ELSE B(22), B(67), 40),
      Road(2, 3, dir[3], name[2], FALSE, 1, 1, B(22), B(67), 40),
      Road(3, close, dir[4], name[3], FALSE, 1, 1, B(22), B(50), 40)>>
    \o (IF spur = 0 THEN <<>>
        ELSE <<Road(spur, 5, "both", 1, FALSE, 1, 1, B(44), B(0), 40)>>)

WalkGraphs ==
    {MkEdges(WalkRoads(dir, name, close, spur, back)) :
        dir \in [1..4 -> {"both", "fwd"}], name \in [1..3 -> {1, 2}],
        close \in WalkCloses, spur \in WalkSpurs, back \in BOOLEAN}

InitWalk ==
    /\ edges \in WalkGraphs
    /\ barrier_nodes = {}
    /\ only_restrictions = {}
    /\ no_restrictions = {}
    /\ parallel = {}

\* GetActualNextIntersection is not running
NoWalk ==
    [pc |-> "idle", starting_node |-> SPECIAL_NODEID, via_edge |-> SPECIAL_EDGEID,
     result |-> <<>>, node_at_intersection |-> SPECIAL_NODEID,
     incoming_edge |-> SPECIAL_EDGEID, termination_node |-> SPECIAL_NODEID,
     visited_nodes |-> {}, iterations |-> 0, exit |-> "none"]

Init ==
    /\ \/ InitLegal
       \/ InitMergeData
       \/ InitMergeAngles
       \/ InitJoining
       \/ InitTies
       \/ InitWalk
       \/ InitClose
    /\ walk = NoWalk
    /\ pc = "idle"
    /\ from_node = SPECIAL_NODEID
    /\ via_eid = SPECIAL_EDGEID
    /\ connected = <<>>
    /\ merged = <<>>
    /\ intersection = <<>>
    /\ index = 0

----------------------------------------------------------------------------
(* operator(), lines 45-51 *)

\* the calls are made over the edges that leave the nodes 0..MaxFromNode
MaxFromNode == 0

\* line 47: intersection = GetConnectedRoads(from_node, via_eid)
CallGetConnectedRoads ==
    /\ pc = "idle"
    /\ walk.pc = "idle"
    /\ \E via \in EdgeIDs :
        /\ edges[via].source <= MaxFromNode
        /\ from_node' = edges[via].source
        /\ via_eid' = via
        /\ intersection' \in GetConnectedRoads(edges[via].source, via)
    /\ connected' = intersection'
    /\ pc' = "connected"
    /\ UNCHANGED <<merged, index, walk>>
    /\ UNCHANGED graphVars

\* line 50: MergeSegregatedRoads(node_at_intersection, intersection)
CallMergeSegregatedRoads ==
    /\ pc = "connected"
    /\ intersection' \in MergeSegregatedRoads(GetTarget(via_eid), intersection)
    /\ merged' = intersection'
    /\ pc' = "adjust"
    /\ index' = 2
    /\ UNCHANGED <<from_node, via_eid, connected, walk>>
    /\ UNCHANGED graphVars

\* lines 553-633: one iteration of the loop of AdjustForJoiningRoads
AdjustForJoiningRoads ==
    /\ pc = "adjust"
    /\ index <= Len(intersection)
    /\ \E next_intersection_along_road \in
            GetConnectedRoads(GetTarget(via_eid), intersection[index].eid) :
        intersection' = AdjustRoad(intersection, index, next_intersection_along_road)
    /\ index' = index + 1
    /\ UNCHANGED <<pc, from_node, via_eid, connected, merged, walk>>
    /\ UNCHANGED graphVars

\* lines 548-549 and 634: AdjustForJoiningRoads and operator() return
Return ==
    /\ pc = "adjust"
    /\ index > Len(intersection)
    /\ pc' = "returned"
    /\ UNCHANGED <<from_node, via_eid, connected, merged, intersection, index, walk>>
    /\ UNCHANGED graphVars

----------------------------------------------------------------------------
(* GetActualNextIntersection, lines 637-678 *)

\* EdgeData::IsCompatibleTo: same name, classification and travel mode
IsCompatibleTo(lhs_edge_data, rhs_edge_data) ==
    /\ lhs_edge_data.name_id = rhs_edge_data.name_id
    /\ lhs_edge_data.road_classification = rhs_edge_data.road_classification
    /\ lhs_edge_data.travel_mode = rhs_edge_data.travel_mode

\* lines 655-658: the condition of the while loop
WalkCondition(w) ==
    /\ w.node_at_intersection \notin w.visited_nodes
    /\ Len(w.result) = 2
    /\ IsCompatibleTo(GetEdgeData(w.via_edge), GetEdgeData(w.result[2].eid))

\* lines 645-653: result = GetConnectedRoads(starting_node, via_edge) and the
\* locals of the walk; exit tells how the loop was left
CallGetActualNextIntersection ==
    /\ pc = "idle"
    /\ walk.pc = "idle"
    /\ \E via_edge \in EdgeIDs :
        /\ edges[via_edge].source <= MaxFromNode
        /\ \E result \in GetConnectedRoads(edges[via_edge].source, via_edge) :
            walk' = [pc |-> "loop",
                     starting_node |-> edges[via_edge].source,
                     via_edge |-> via_edge,
                     result |-> result,
                     node_at_intersection |-> edges[via_edge].source,
                     incoming_edge |-> via_edge,
                     termination_node |-> GetTarget(via_edge),
                     visited_nodes |-> {},
                     iterations |-> 0,
                     exit |-> "none"]
    /\ UNCHANGED <<pc, from_node, via_eid, connected, merged, intersection, index>>
    /\ UNCHANGED graphVars

\* faulty variant of SkipIntersection: the loop does not stop at the termination node
SkipIntersection_NoBreak ==
    /\ walk.pc = "loop"
    /\ WalkCondition(walk)
    /\ LET node_at_intersection == GetTarget(walk.incoming_edge)
           incoming_edge == walk.result[2].eid
       IN  \E result \in GetConnectedRoads(node_at_intersection, incoming_edge) :
               walk' = [walk EXCEPT
                   !.visited_nodes = @ \cup {walk.node_at_intersection},
                   !.node_at_intersection = node_at_intersection,
                   !.incoming_edge = incoming_edge,
                   !.result = result,
                   !.iterations = @ + 1,
                   !.pc = "loop",
                   !.exit = "none"]
    /\ UNCHANGED <<pc, from_node, via_eid, connected, merged, intersection, index>>
    /\ UNCHANGED graphVars

\* faulty variant of SkipIntersection: the node is taken from the new incoming edge
SkipIntersection_NodeOfNewEdge ==
    /\ walk.pc = "loop"
    /\ WalkCondition(walk)
    /\ LET incoming_edge == walk.result[2].eid
           node_at_intersection == GetTarget(incoming_edge)
       IN  \E result \in GetConnectedRoads(node_at_intersection, incoming_edge) :
               walk' = [walk EXCEPT
                   !.visited_nodes = @ \cup {walk.node_at_intersection},
                   !.node_at_intersection = node_at_intersection,
                   !.incoming_edge = incoming_edge,
                   !.result = result,
                   !.iterations = @ + 1,
                   !.pc = IF walk.termination_node = GetTarget(incoming_edge)
                          THEN "returned" ELSE "loop",
                   !.exit = IF walk.termination_node = GetTarget(incoming_edge)
                            THEN "break" ELSE "none"]
    /\ UNCHANGED <<pc, from_node, via_eid, connected, merged, intersection, index>>
    /\ UNCHANGED graphVars

\* lines 659-668: one iteration of the loop
SkipIntersection ==
    /\ walk.pc = "loop"
    /\ WalkCondition(walk)
    /\ LET node_at_intersection == GetTarget(walk.incoming_edge)
           incoming_edge == walk.result[2].eid
       IN  \E result \in GetConnectedRoads(node_at_intersection, incoming_edge) :
               walk' = [walk EXCEPT
                   !.visited_nodes = @ \cup {walk.node_at_intersection},
                   !.node_at_intersection = node_at_intersection,
                   !.incoming_edge = incoming_edge,
                   !.result = result,
                   !.iterations = @ + 1,
                   !.pc = IF walk.termination_node = GetTarget(incoming_edge)
                          THEN "returned" ELSE "loop",
                   !.exit = IF walk.termination_node = GetTarget(incoming_edge)
                            THEN "break" ELSE "none"]
    /\ UNCHANGED <<pc, from_node, via_eid, connected, merged, intersection, index>>
    /\ UNCHANGED graphVars

\* lines 655-658 and 671-677: the loop condition fails and the function returns
ReturnActualNextIntersection ==
    /\ walk.pc = "loop"
    /\ ~WalkCondition(walk)
    /\ walk' = [walk EXCEPT
           !.pc = "returned",
           !.exit = IF walk.node_at_intersection \in walk.visited_nodes
                    THEN "visited" ELSE "condition"]
    /\ UNCHANGED <<pc, from_node, via_eid, connected, merged, intersection, index>>
    /\ UNCHANGED graphVars

Next ==
    \/ CallGetConnectedRoads
    \/ CallMergeSegregatedRoads
    \/ AdjustForJoiningRoads
    \/ Return
    \/ CallGetActualNextIntersection
    \/ SkipIntersection
    \/ ReturnActualNextIntersection

Spec == Init /\ [][Next]_vars

----------------------------------------------------------------------------
(* Properties of GetConnectedRoads *)

turn_node == GetTarget(via_eid)
Indices == 1..Len(intersection)
TargetOf(i) == GetTarget(intersection[i].eid)

\* C1: the list GetConnectedRoads returns is not empty, its first element has an
\* angle in [0, epsilon) and its angles never decrease.
C1_Sorted ==
    pc = "connected" =>
        /\ Len(intersection) >= 1
        /\ 0 <= intersection[1].angle /\ intersection[1].angle < Epsilon
        /\ IsSortedByAngle(intersection)

\* C1 witness: a list of three roads or more that starts with the artificial u-turn
C1_Witness ==
    /\ pc = "connected"
    /\ Len(intersection) >= 3
    /\ intersection[1].eid = via_eid
    /\ \E i \in Indices : intersection[i].angle > intersection[1].angle

\* C5: every entry is an edge of the turn node, but for at most one artificial
\* entry that carries via_edge; every adjacent edge, parallel edges included, is
\* there exactly once, and no entry carries SPECIAL_EDGEID.
C5_Edges ==
    pc = "connected" =>
        /\ \A i \in Indices :
              \/ intersection[i].eid \in AdjacentEdges(turn_node)
              \/ intersection[i].eid = via_eid
        /\ Cardinality({i \in Indices : intersection[i].eid \notin AdjacentEdges(turn_node)}) <= 1
        /\ \A e \in AdjacentEdges(turn_node) :
              Cardinality({i \in Indices : intersection[i].eid = e}) = 1
        /\ \A i \in Indices : intersection[i].eid # SPECIAL_EDGEID

\* C5 witness: two parallel edges of the turn node are both in the list
C5_Witness ==
    /\ pc = "connected"
    /\ \E i, j \in Indices :
          /\ i # j
          /\ TargetOf(i) = TargetOf(j)
          /\ intersection[i].eid # intersection[j].eid
          /\ TargetOf(i) # from_node

\* the only-turn restriction of (from_node, turn_node) names a neighbour of turn_node
NamedOnlyTurn ==
    LET to == CheckForEmanatingIsOnlyTurn(from_node, turn_node)
    IN  IF to # SPECIAL_NODEID /\ \E e \in AdjacentEdges(turn_node) : GetTarget(e) = to
        THEN {to} ELSE {}

LegalTurn(e) ==
    /\ ~GetEdgeData(e).reversed
    /\ ~CheckIfTurnIsRestricted(from_node, turn_node, GetTarget(e))
    /\ \A to \in NamedOnlyTurn : GetTarget(e) = to

\* C6: every entry with entry_allowed is a legal turn: not a reversed edge, not
\* forbidden by the restriction map, and the target of the only-turn restriction
\* when one names a neighbour of the turn node.
C6_AllowedIsLegal ==
    pc = "connected" =>
        \A i \in Indices : intersection[i].entry_allowed => LegalTurn(intersection[i].eid)

\* C7: at a barrier node only entries that lead back to from_node are allowed.
C7_Barrier ==
    (pc = "connected" /\ IsBarrierNode(turn_node)) =>
        \A i \in Indices : intersection[i].entry_allowed => TargetOf(i) = from_node

\* C7 witness: a barrier node with a road to another node that is no one-way
\* against the turn, and an allowed u-turn
C7_Witness ==
    /\ pc = "connected"
    /\ IsBarrierNode(turn_node)
    /\ \E i \in Indices : intersection[i].entry_allowed
    /\ \E i \in Indices : TargetOf(i) # from_node /\ ~GetEdgeData(intersection[i].eid).reversed

\* the turn node is a dead end: at most one of its edges has a reverse edge that
\* is not reversed, or it has at most one edge
DeadEnd ==
    \/ Cardinality(AdjacentEdges(turn_node)) <= 1
    \/ Cardinality({e \in AdjacentEdges(turn_node) :
           \E r \in AdjacentEdges(GetTarget(e)) :
               /\ GetTarget(r) = turn_node
               /\ ~GetEdgeData(r).reversed
               /\ \A q \in AdjacentEdges(GetTarget(e)) : GetTarget(q) = turn_node => r <= q})
       <= 1

\* the turn node has a two-way road to a node other than from_node
OffersBidirectionalRoad ==
    \E e \in AdjacentEdges(turn_node) :
        /\ GetTarget(e) # from_node
        /\ ~GetEdgeData(e).reversed
        /\ \E r \in AdjacentEdges(GetTarget(e)) :
              GetTarget(r) = turn_node /\ ~GetEdgeData(r).reversed

DanglingOnlyTurn ==
    /\ CheckForEmanatingIsOnlyTurn(from_node, turn_node) # SPECIAL_NODEID
    /\ \A e \in AdjacentEdges(turn_node) :
          GetTarget(e) # CheckForEmanatingIsOnlyTurn(from_node, turn_node)

\* C9: with a dangling only-turn restriction GetConnectedRoads returns what it
\* returns when the restriction map reports no only-turn restriction.
C9_DanglingIgnored ==
    (pc = "connected" /\ DanglingOnlyTurn) =>
        intersection \in ConnectedRoadsGiven(SPECIAL_NODEID, from_node, via_eid)

\* C9 witness: a dangling only-turn restriction and an allowed turn to another node
C9_Witness ==
    /\ pc = "connected"
    /\ DanglingOnlyTurn
    /\ \E i \in Indices : intersection[i].entry_allowed /\ TargetOf(i) # from_node

----------------------------------------------------------------------------
(* Properties of MergeSegregatedRoads, AdjustForJoiningRoads and CanMerge *)

\* MergeSegregatedRoads has just returned
JustMerged == pc = "adjust" /\ index = 2

\* C2: MergeSegregatedRoads keeps the invariants of the Intersection: its output
\* is not empty, sorted by angle, and its first element has angle 0.
C2_MergeKeepsOrder ==
    JustMerged =>
        /\ Len(intersection) >= 1
        /\ IsSortedByAngle(intersection)
        /\ intersection[1].angle = 0

\* C2 witness: a u-turn merge and a sweep merge in one call
C2_Witness ==
    /\ JustMerged
    /\ Len(connected) = 4
    /\ Len(intersection) = 2

\* C3: the Intersection operator() returns is sorted by angle and its first
\* element has angle 0 and is the one MergeSegregatedRoads put there.
C3_ResultSorted ==
    pc = "returned" =>
        /\ IsSortedByAngle(intersection)
        /\ intersection[1].angle = 0
        /\ intersection[1] = merged[1]

\* C3 witness: two neighbours were both shifted
C3_Witness ==
    /\ pc = "returned"
    /\ \E i \in 2..(Len(intersection) - 1) :
          /\ intersection[i].angle # merged[i].angle
          /\ intersection[i + 1].angle # merged[i + 1].angle

\* C4: every angle and every bearing of the Intersection operator() returns is
\* in [0, 360).
C4_InRange ==
    pc = "returned" =>
        \A i \in Indices :
            /\ 0 <= intersection[i].angle /\ intersection[i].angle < FullCircle
            /\ 0 <= intersection[i].bearing /\ intersection[i].bearing < FullCircle

\* the same, for the angles alone
C4_AnglesInRange ==
    pc = "returned" =>
        \A i \in Indices : 0 <= intersection[i].angle /\ intersection[i].angle < FullCircle

\* the same, after MergeSegregatedRoads
C4_MergedInRange ==
    JustMerged =>
        \A i \in Indices :
            /\ 0 <= intersection[i].angle /\ intersection[i].angle < FullCircle
            /\ 0 <= intersection[i].bearing /\ intersection[i].bearing < FullCircle

\* the conditions of the merge predicate for the entries i and j
MergeConditions(i, j) ==
    LET first_data == GetEdgeData(intersection[i].eid)
        second_data == GetEdgeData(intersection[j].eid)
    IN  /\ Len(intersection) >= 3
        /\ first_data.name_id # EMPTY_NAMEID
        /\ second_data.name_id # EMPTY_NAMEID
        /\ ~requiresNameAnnounced(first_data.name_id, second_data.name_id)
        /\ first_data.reversed # second_data.reversed
        /\ first_data.travel_mode = second_data.travel_mode
        /\ first_data.road_classification = second_data.road_classification
        /\ ~first_data.roundabout
        /\ ~second_data.roundabout
        /\ ~(intersection[i].entry_allowed /\ intersection[j].entry_allowed)
        /\ angularDeviation(intersection[i].angle, intersection[j].angle) <= D(60)
        /\ haveSameDirection(turn_node, intersection[i], intersection[j])

\* C10: CanMerge is true exactly when the intersection has three entries or
\* more, both edges are named and the names need no announcement, the edges
\* differ in reversed and agree in travel mode and classification, neither is a
\* roundabout, the entries are not both allowed, their angles deviate by at most
\* 60 degrees and haveSameDirection passes; the narrow-triangle and the
\* connect-again tests change nothing.
C10_CanMerge ==
    pc # "idle" =>
        \A i, j \in Indices :
            i # j => (CanMerge(turn_node, intersection, i, j) <=> MergeConditions(i, j))

\* C10 witness: one pair of the intersection can merge, and another pair that
\* forms a narrow triangle and passes every test but haveSameDirection cannot
C10_Witness ==
    /\ pc = "connected"
    /\ \E i, j \in Indices : i # j /\ CanMerge(turn_node, intersection, i, j)
    /\ \E i, j \in Indices :
          /\ i # j
          /\ ~CanMerge(turn_node, intersection, i, j)
          /\ isNarrowTriangle(turn_node, intersection[i], intersection[j])
          /\ GetEdgeData(intersection[i].eid).reversed # GetEdgeData(intersection[j].eid).reversed
          /\ ~(intersection[i].entry_allowed /\ intersection[j].entry_allowed)
          /\ angularDeviation(intersection[i].angle, intersection[j].angle) <= D(60)
          /\ GetEdgeData(intersection[i].eid).name_id = GetEdgeData(intersection[j].eid).name_id
          /\ GetEdgeData(intersection[i].eid).name_id # EMPTY_NAMEID

----------------------------------------------------------------------------
(* More properties of MergeSegregatedRoads *)

\* what a second pass of MergeSegregatedRoads over its own output leaves
\* before the final sort
SecondPass == RemoveInvalid(MergeSweep(turn_node, MergeUTurn(turn_node, merged), 3))

\* C11: merging is idempotent: a second pass of MergeSegregatedRoads over its
\* own output merges nothing and changes no angle, bearing, edge id or
\* entry_allowed flag.
C11_Idempotent ==
    JustMerged => SecondPass = merged

\* C12: the output of MergeSegregatedRoads has no more entries than the input,
\* and no entry of the output at source index i >= 2 can merge with the entry
\* before it.
C12_NoMergeableNeighbours ==
    JustMerged =>
        /\ Len(merged) <= Len(connected)
        /\ \A i \in 3..Len(merged) : ~CanMerge(turn_node, merged, i, i - 1)

\* the size part of C12 alone
C12_SizeNotGrown ==
    JustMerged => Len(merged) <= Len(connected)

\* the entry the claim C13 names as the source of the edge id and the flag
PreferredOf(x, y) == IF x.entry_allowed THEN x ELSE IF y.entry_allowed THEN y ELSE x

\* C13: merge(x, y) takes the edge id and entry_allowed from whichever of x and
\* y is entry_allowed, from x when neither is, and its angle and bearing are the
\* angular midpoints of the two angles and the two bearings; stated for every
\* pair of entries that GetConnectedRoads returned and that can merge.
C13_MergeFields ==
    pc = "connected" =>
        \A i, j \in Indices :
            (i # j /\ CanMerge(turn_node, intersection, i, j)) =>
                LET x == intersection[i]
                    y == intersection[j]
                    result == merge(x, y)
                IN  /\ result.eid = PreferredOf(x, y).eid
                    /\ result.entry_allowed = PreferredOf(x, y).entry_allowed
                    /\ result.angle = angleBetween(x.angle, y.angle)
                    /\ result.bearing = angleBetween(x.bearing, y.bearing)

\* the same with the source as line 400 chooses it: x when x is entry_allowed,
\* y otherwise
C13_MergeFieldsAsCoded ==
    pc = "connected" =>
        \A i, j \in Indices :
            (i # j /\ CanMerge(turn_node, intersection, i, j)) =>
                LET x == intersection[i]
                    y == intersection[j]
                    result == merge(x, y)
                    chosen == IF x.entry_allowed THEN x ELSE y
                IN  /\ result.eid = chosen.eid
                    /\ result.entry_allowed = chosen.entry_allowed
                    /\ result.angle = angleBetween(x.angle, y.angle)
                    /\ result.bearing = angleBetween(x.bearing, y.bearing)

\* the u-turn step of MergeSegregatedRoads merges element 0 of its input
UTurnMerged ==
    \/ CanMerge(turn_node, connected, 1, Len(connected))
    \/ CanMerge(turn_node, connected, 1, 2)

\* C14: a roundabout participant is never merged: every entry of the input of
\* MergeSegregatedRoads whose edge is a roundabout is in the output with the
\* same edge id, bearing and entry_allowed flag, once; its angle changes only
\* when the u-turn step merged and shifted the other roads.
C14_RoundaboutKept ==
    JustMerged =>
        \A i \in 1..Len(connected) :
            GetEdgeData(connected[i].eid).roundabout =>
                /\ Cardinality({j \in Indices : intersection[j].eid = connected[i].eid}) = 1
                /\ \E j \in Indices :
                      /\ intersection[j].eid = connected[i].eid
                      /\ intersection[j].bearing = connected[i].bearing
                      /\ intersection[j].entry_allowed = connected[i].entry_allowed
                      /\ (~UTurnMerged => intersection[j].angle = connected[i].angle)

\* C14 witness: the input holds a roundabout entry next to entries that were
\* merged, and the u-turn step shifted the roundabout entry
C14_Witness ==
    /\ JustMerged
    /\ Len(intersection) < Len(connected)
    /\ \E i \in 1..Len(connected), j \in Indices :
          /\ GetEdgeData(connected[i].eid).roundabout
          /\ intersection[j].eid = connected[i].eid
          /\ intersection[j].angle # connected[i].angle

----------------------------------------------------------------------------
(* More properties of AdjustForJoiningRoads *)

\* the roads AdjustForJoiningRoads has gone through (indices from 1)
Adjusted == {i \in 2..Len(intersection) : pc \in {"adjust", "returned"} /\ i < index}

\* the shift of road i: positive to the left, negative to the right
ShiftOf(i) == intersection[i].angle - merged[i].angle

\* the deviation between road i and its neighbour in the direction of its shift,
\* as it was when road i was adjusted
NeighbourDeviation(i) ==
    IF ShiftOf(i) > 0
    THEN angularDeviation(merged[i].angle, merged[(i % Len(merged)) + 1].angle)
    ELSE angularDeviation(merged[i].angle, intersection[i - 1].angle)

\* C15: the offset AdjustForJoiningRoads adds to or subtracts from a road's
\* angle is at most half the angular deviation between the road and its
\* neighbour in the direction of the shift.
C15_OffsetLimited ==
    \A i \in Adjusted : 2 * Abs(ShiftOf(i)) <= NeighbourDeviation(i)

\* what get_corrected_offset does guarantee: the shift stays below the
\* deviation to the neighbour
C15_ShiftBelowDeviation ==
    \A i \in Adjusted : ShiftOf(i) # 0 => Abs(ShiftOf(i)) < NeighbourDeviation(i)

----------------------------------------------------------------------------
(* The u-turn step of MergeSegregatedRoads *)

\* the input of MergeSegregatedRoads right after its u-turn step, lines 447-475
AfterUTurnStep == UTurnStep(turn_node, connected)

\* C16: when the u-turn can merge with the last entry of an input of n entries,
\* the u-turn step leaves n - 1 entries: element 0 is merge(element 0, last)
\* with angle 0, the entries between them keep their fields but for the angle,
\* which grows by (360 - last.angle) / 2, and element 1 is not merged.  The
\* merge with element 1, which takes element-1.angle / 2 from the angle of every
\* later entry, is made only when the u-turn cannot merge with the last entry.
C16_UTurnStep ==
    (pc = "connected" /\ Len(connected) >= 2) =>
        LET n == Len(connected)
            last == connected[n]
        IN  IF CanMerge(turn_node, connected, 1, n)
            THEN /\ Len(AfterUTurnStep) = n - 1
                 /\ AfterUTurnStep[1] = [merge(connected[1], last) EXCEPT !.angle = 0]
                 /\ \A k \in 2..(n - 1) :
                       /\ 2 * (AfterUTurnStep[k].angle - connected[k].angle)
                              = FullCircle - last.angle
                       /\ AfterUTurnStep[k].eid = connected[k].eid
                       /\ AfterUTurnStep[k].bearing = connected[k].bearing
                       /\ AfterUTurnStep[k].entry_allowed = connected[k].entry_allowed
            ELSE IF CanMerge(turn_node, connected, 1, 2)
            THEN /\ Len(AfterUTurnStep) = n - 1
                 /\ AfterUTurnStep[1] = [merge(connected[1], connected[2]) EXCEPT !.angle = 0]
                 /\ \A k \in 3..n :
                       /\ 2 * (connected[k].angle - AfterUTurnStep[k - 1].angle)
                              = connected[2].angle
                       /\ AfterUTurnStep[k - 1].eid = connected[k].eid
                       /\ AfterUTurnStep[k - 1].bearing = connected[k].bearing
                       /\ AfterUTurnStep[k - 1].entry_allowed = connected[k].entry_allowed
            ELSE AfterUTurnStep = connected

\* C16 witness: the u-turn can merge with the last entry and with element 1 of
\* an input of four entries
C16_Witness ==
    /\ pc = "connected"
    /\ Len(connected) = 4
    /\ CanMerge(turn_node, connected, 1, 4)
    /\ CanMerge(turn_node, connected, 1, 2)
    /\ connected[2].angle > 0

\* C17: when MergeSegregatedRoads merges the u-turn (with the last entry or
\* with element 1) and an entry of its input is a roundabout, element 0 of the
\* intersection it returns has entry_allowed = false.
C17_RoundaboutUTurnDisabled ==
    (JustMerged /\ UTurnMerged /\ is_connected_to_roundabout(connected)) =>
        ~intersection[1].entry_allowed

\* the same for the merged u-turn itself, wherever the sort leaves it: every
\* entry of the output that holds the merged u-turn is not allowed
C17_MergedUTurnDisabled ==
    (JustMerged /\ UTurnMerged /\ is_connected_to_roundabout(connected)) =>
        \E j \in Indices :
            /\ intersection[j].angle = 0
            /\ intersection[j].bearing = AfterUTurnStep[1].bearing
            /\ intersection[j].eid = AfterUTurnStep[1].eid
            /\ ~intersection[j].entry_allowed

----------------------------------------------------------------------------
(* The artificial u-turn of GetConnectedRoads *)

\* an edge of turn_node leads back to from_node
HasUTurnEdge == \E e \in AdjacentEdges(turn_node) : GetTarget(e) = from_node

\* an edge of turn_node that does not lead back to from_node has the angle 0
HasZeroAngleEdge ==
    \E e \in AdjacentEdges(turn_node) :
        GetTarget(e) # from_node /\ Abs(computeAngle(via_eid, e)) < Epsilon

\* the intersection holds the artificial u-turn
HasSyntheticUTurn ==
    \E i \in Indices :
        /\ intersection[i].eid = via_eid
        /\ intersection[i].angle = 0
        /\ ~intersection[i].entry_allowed

\* a u-turn edge is an entry of angle 0
UTurnEdgeAtAngleZero ==
    \E i \in Indices : TargetOf(i) = from_node /\ intersection[i].angle = 0

\* C18 as claimed: the list GetConnectedRoads returns holds the artificial
\* u-turn exactly when no edge of turn_node leads back to from_node; when one
\* does, it is the entry of angle 0.
C18_Original ==
    pc = "connected" =>
        /\ HasSyntheticUTurn <=> ~HasUTurnEdge
        /\ HasUTurnEdge => UTurnEdgeAtAngleZero

\* C18: the list GetConnectedRoads returns holds the artificial u-turn (edge
\* id via_eid, angle 0, not allowed) exactly when no edge of turn_node leads
\* back to from_node and no edge of turn_node has the angle 0; an edge that
\* leads back to from_node is an entry of angle 0.
C18_SyntheticUTurn ==
    pc = "connected" =>
        /\ HasSyntheticUTurn <=> (~HasUTurnEdge /\ ~HasZeroAngleEdge)
        /\ HasUTurnEdge => UTurnEdgeAtAngleZero

\* C18 witness: a street from nowhere meets a road of angle 0, and no
\* artificial u-turn is added
C18_Witness ==
    /\ pc = "connected"
    /\ ~HasUTurnEdge
    /\ HasZeroAngleEdge
    /\ ~HasSyntheticUTurn

----------------------------------------------------------------------------
(* Properties of GetActualNextIntersection *)

\* C19: GetActualNextIntersection terminates: every iteration of its loop adds
\* a node that was not yet visited to visited_nodes, so the iterations are no
\* more than the nodes of the graph; the loop is left at the latest when the
\* incoming edge leads to the target of the original via_edge.
C19_WalkTerminates ==
    walk.pc # "idle" =>
        /\ walk.iterations = Cardinality(walk.visited_nodes)
        /\ walk.visited_nodes \subseteq Nodes
        /\ walk.iterations <= Cardinality(Nodes)
        /\ (walk.pc = "loop" /\ walk.iterations > 0) =>
               GetTarget(walk.incoming_edge) # walk.termination_node

\* C19 witness: the walk went round a cycle of compatible roads and stopped
\* when it came back to the target of via_edge
C19_Witness ==
    /\ walk.pc = "returned"
    /\ walk.exit = "break"
    /\ walk.iterations >= 3

\* C20: on return from GetActualNextIntersection the resulting via edge leaves
\* the resulting from node, the result is what GetConnectedRoads returns for
\* the two, and unless the walk stopped on a cycle the result is a real
\* intersection: it does not have exactly two entries with entry 1 compatible
\* with via_edge.
C20_WalkResult ==
    walk.pc = "returned" =>
        /\ walk.incoming_edge \in AdjacentEdges(walk.node_at_intersection)
        /\ walk.result \in GetConnectedRoads(walk.node_at_intersection, walk.incoming_edge)
        /\ walk.exit \notin {"visited", "break"} =>
               ~(/\ Len(walk.result) = 2
                 /\ IsCompatibleTo(GetEdgeData(walk.via_edge),
                                   GetEdgeData(walk.result[2].eid)))

\* C20 witness: the walk skipped two intersections and returned a real one
C20_Witness ==
    /\ walk.pc = "returned"
    /\ walk.exit = "condition"
    /\ walk.iterations >= 2
    /\ Len(walk.result) >= 3

----------------------------------------------------------------------------
(* The allowed entries across MergeSegregatedRoads *)

\* the number of entries of roads with entry_allowed
AllowedCount(roads) == Cardinality({i \in 1..Len(roads) : roads[i].entry_allowed})

\* C21: MergeSegregatedRoads hides no legal turn: its output has as many
\* allowed entries as its input, or one less, the merged u-turn, when the
\* u-turn was merged at an intersection connected to a roundabout; and every
\* edge id of the output is an edge id of the input, none SPECIAL_EDGEID.
C21_AllowedKept ==
    JustMerged =>
        /\ \A j \in Indices :
              /\ intersection[j].eid # SPECIAL_EDGEID
              /\ \E i \in 1..Len(connected) : connected[i].eid = intersection[j].eid
        /\ \/ AllowedCount(intersection) = AllowedCount(connected)
           \/ /\ UTurnMerged
              /\ is_connected_to_roundabout(connected)
              /\ AfterUTurnStep[1].entry_allowed
              /\ AllowedCount(intersection) = AllowedCount(connected) - 1

\* C21 witness: a u-turn merge and a sweep merge in one call, each of an
\* allowed entry with one that is not allowed
C21_Witness ==
    /\ JustMerged
    /\ Len(connected) = 4
    /\ Len(intersection) = 2
    /\ AllowedCount(connected) = 2
    /\ AllowedCount(intersection) = 2

\* the u-turn merged at a roundabout costs one allowed entry
C21_RoundaboutCase ==
    /\ JustMerged
    /\ AllowedCount(intersection) = AllowedCount(connected) - 1

----------------------------------------------------------------------------
(* The corrected offset of AdjustForJoiningRoads *)

\* the uncorrected offsets road i can get from the intersection at its far end:
\* half the deviation between element 0 there and its merge partner, the
\* partner being element 1 for a shift to the left and the last element for a
\* shift to the right
UncorrectedOffsets(i) ==
    {IF ShiftOf(i) > 0 THEN get_offset(next[1], next[2])
                       ELSE get_offset(next[1], next[Len(next)]) :
        next \in {n \in GetConnectedRoads(turn_node, merged[i].eid) : Len(n) >= 2}}

\* C22: the correction only reduces a shift: get_corrected_offset returns a
\* value between 0 and the uncorrected offset, so no road is moved by more
\* than half the deviation between element 0 and the merge partner of the
\* intersection at its far end.
C22_CorrectionOnlyReduces ==
    \A i \in Adjusted :
        ShiftOf(i) # 0 => \E offset \in UncorrectedOffsets(i) : Abs(ShiftOf(i)) <= offset

\* what does hold: the shift is the uncorrected offset or half the deviation
\* to the neighbour
C22_OffsetOrHalfLimit ==
    \A i \in Adjusted :
        ShiftOf(i) # 0 =>
            \/ \E offset \in UncorrectedOffsets(i) : Abs(ShiftOf(i)) = offset
            \/ 2 * Abs(ShiftOf(i)) = NeighbourDeviation(i)

====
